---- MODULE Spec2Model ----
(***************************************************************************)
(* Gold Sentiment Index: the weighted sentiment aggregation of             *)
(* processing/sentiment.py and the gauge of processing/dashboard.py.       *)
(*                                                                         *)
(* Number representation (Python floats become fixed-point integers):      *)
(*   time                 seconds                                          *)
(*   recency weight       tenths            (1.0 -> 10, 0.8 -> 8, ...)     *)
(*   sentiment score      hundredths        (0.85 -> 85)                   *)
(*   margin floor / base  thousandths       (1e-3 -> 1)                    *)
(*   impact weight        1e-5              (base ** 1.5, rounded down)    *)
(*   effective weight     1e-6              (recency * impact)             *)
(*   nw                   1e-8              (sum of weight * net score)    *)
(*   nw_norm, gsi         thousandths of an index point (25.0 -> 25000)    *)
(* A text is a sequence of one-character strings.                          *)
(***************************************************************************)
EXTENDS Integers, Sequences, FiniteSets, TLC

VARIABLES
    now,                    \* datetime.now(timezone.utc), in seconds
    news_json,              \* the file news.json
    pc,                     \* position of run_analysis_only
    news_raw,               \* analyze_documents: the loaded snapshot
    cursor,                 \* analyze_documents: records of news_raw already filtered
    news_items,             \* analyze_documents: surviving records
    recency_weights,        \* analyze_documents: their recency weights
    texts,                  \* analyze_documents: their extracted texts
    batch_calls,            \* every argument list analyze_batch was called with
    batch_outcome,          \* how the analyze_batch call ended
    news_scores,            \* analyze_documents: what analyze_batch returned
    effective_weights,      \* analyze_documents: news_weights given to compute_index
    index_scores,           \* analyze_documents: scores given to compute_index
    news_docs,              \* analyze_documents: DocumentSentiment list
    result,                 \* analyze_documents: the returned dict
    sentiment_results_json, \* the file sentiment_results.json
    gsi_value_json,         \* the file docs/gsi_value.json
    dashboard_html,         \* the file docs/index.html
    gauge,                  \* the page: what the canvas and the labels show
    probe                   \* a single call of one function: argument and outcome

vars == << now, news_json, pc, news_raw, cursor, news_items, recency_weights, texts,
           batch_calls, batch_outcome, news_scores, effective_weights, index_scores,
           news_docs, result, sentiment_results_json, gsi_value_json,
           dashboard_html, gauge, probe >>

pipeline_vars == << now, news_json, pc, news_raw, cursor, news_items, recency_weights,
                    texts, batch_calls, batch_outcome, news_scores, effective_weights,
                    index_scores, news_docs, result, sentiment_results_json,
                    gsi_value_json >>

page_vars == << dashboard_html, gauge >>

(***************************************************************************)
(* Bounds of the model.                                                    *)
(***************************************************************************)
MaxDocs == 2          \* records in news.json
MaxAgeDays == 31      \* oldest probed timestamp, in days
MaxTextLen == 3       \* length of the generated probe texts
MaxGsiStep == 40      \* probed index values: multiples of 100/MaxGsiStep points

(***************************************************************************)
(* Small helpers.                                                          *)
(***************************************************************************)
Abs(x) == IF x < 0 THEN -x ELSE x

Max(a, b) == IF a >= b THEN a ELSE b

Min(a, b) == IF a <= b THEN a ELSE b

RECURSIVE IsqrtBetween(_, _, _)
IsqrtBetween(n, lo, hi) ==
    \* the r in lo..hi with r*r <= n < (r+1)*(r+1), by bisection
    IF lo >= hi THEN lo
    ELSE LET mid == (lo + hi + 1) \div 2
         IN  IF mid * mid <= n THEN IsqrtBetween(n, mid, hi)
                               ELSE IsqrtBetween(n, lo, mid - 1)

Isqrt(n) == IsqrtBetween(n, 0, 1000)

RECURSIVE SumSeq(_)
SumSeq(s) == IF s = << >> THEN 0 ELSE Head(s) + SumSeq(Tail(s))

(***************************************************************************)
(* Texts: str.lower, str.strip, the `in` substring test, str.join.         *)
(***************************************************************************)
UpperLetters == << "A","B","C","D","E","F","G","H","I","J","K","L","M",
                   "N","O","P","Q","R","S","T","U","V","W","X","Y","Z" >>

LowerLetters == << "a","b","c","d","e","f","g","h","i","j","k","l","m",
                   "n","o","p","q","r","s","t","u","v","w","x","y","z" >>

LowerChar(c) ==
    IF \E i \in 1..Len(UpperLetters) : UpperLetters[i] = c
    THEN LowerLetters[CHOOSE i \in 1..Len(UpperLetters) : UpperLetters[i] = c]
    ELSE c

lower(text) == [ i \in 1..Len(text) |-> LowerChar(text[i]) ]

Whitespace == { " ", "\n", "\t", "\r" }

strip_nonempty_NoStrip(text) == text # << >>

\* bool(text.strip()): some character is not whitespace
strip_nonempty(text) == \E i \in 1..Len(text) : text[i] \notin Whitespace

\* needle in hay
Contains(hay, needle) ==
    \E i \in 0..(Len(hay) - Len(needle)) :
        \A j \in 1..Len(needle) : hay[i + j] = needle[j]

HIGH_IMPACT_KEYWORDS ==
    << <<"p","o","w","e","l","l">>,
       <<"f","e","d","e","r","a","l"," ","r","e","s","e","r","v","e">>,
       <<"f","e","d">>,
       <<"r","a","t","e"," ","h","i","k","e">>,
       <<"r","a","t","e"," ","c","u","t">>,
       <<"r","a","t","e"," ","h","i","k","e","s">>,
       <<"r","a","t","e"," ","c","u","t","s">>,
       <<"i","n","t","e","r","e","s","t"," ","r","a","t","e","s">>,
       <<"m","o","n","e","t","a","r","y"," ","p","o","l","i","c","y">>,
       <<"q","e">>,
       <<"q","u","a","n","t","i","t","a","t","i","v","e"," ","e","a","s","i","n","g">>,
       <<"t","a","p","e","r">>,
       <<"c","e","n","t","r","a","l"," ","b","a","n","k">>,
       <<"c","e","n","t","r","a","l"," ","b","a","n","k","s">>,
       <<"i","n","f","l","a","t","i","o","n"," ","s","h","o","c","k">>,
       <<"s","t","a","g","f","l","a","t","i","o","n">>,
       <<"r","e","c","e","s","s","i","o","n">>,
       <<"c","r","i","s","i","s">>,
       <<"c","r","e","d","i","t"," ","c","r","u","n","c","h">>,
       <<"d","e","-","d","o","l","l","a","r","i","z","a","t","i","o","n">>,
       <<"b","r","i","c","s">> >>

(***************************************************************************)
(* Timestamps.  A record's "timestamp" value is                            *)
(*   form "missing"  the key is absent                                     *)
(*   form "null"     JSON null                                             *)
(*   form "empty"    the empty string                                      *)
(*   form "text"     a string that is not ISO-8601                         *)
(*   form "iso"      an ISO-8601 date-time reading `local` (seconds), with *)
(*                   tz "Z" (suffix Z), tz "offset" (suffix +hh:mm, `off`  *)
(*                   seconds) or tz "none" (no timezone)                   *)
(***************************************************************************)
SECONDS_PER_DAY == 86400

Ts(form, local, tz, off) == [ form |-> form, local |-> local, tz |-> tz, off |-> off ]

TsMissing == Ts("missing", 0, "none", 0)
TsNull    == Ts("null", 0, "none", 0)
TsEmpty   == Ts("empty", 0, "none", 0)
TsText    == Ts("text", 0, "none", 0)

\* n.get("timestamp", ""): the default stands in for an absent key only
get_timestamp(ts) == IF ts.form = "missing" THEN TsEmpty ELSE ts

\* str(ts_str).replace("Z", "+00:00")
replace_Z(ts) ==
    IF ts.form = "iso" /\ ts.tz = "Z" THEN [ ts EXCEPT !.tz = "offset", !.off = 0 ] ELSE ts

\* datetime.fromisoformat: ValueError (ok = FALSE) for anything but the
\* ISO format with a numeric offset or with no timezone; a datetime that is
\* aware (an instant on the UTC line) or naive otherwise.
fromisoformat(ts) ==
    [ ok      |-> ts.form = "iso" /\ ts.tz \in { "offset", "none" },
      aware   |-> ts.tz = "offset",
      instant |-> ts.local - ts.off ]

Returned(v) == [ raised |-> FALSE, value |-> v ]

Raised == [ raised |-> TRUE, value |-> 0 ]

\* the ladder of lines 109-119, on age in seconds
age_weight_Shifted(age_seconds) ==
    IF age_seconds < 1 * SECONDS_PER_DAY THEN 10
    ELSE IF age_seconds < 3 * SECONDS_PER_DAY THEN 8
    ELSE IF age_seconds < 7 * SECONDS_PER_DAY THEN 6
    ELSE IF age_seconds < 14 * SECONDS_PER_DAY THEN 3
    ELSE IF age_seconds < 30 * SECONDS_PER_DAY THEN 1
    ELSE 0

age_weight(age_seconds) ==
    IF age_seconds <= 1 * SECONDS_PER_DAY THEN 10
    ELSE IF age_seconds <= 3 * SECONDS_PER_DAY THEN 8
    ELSE IF age_seconds <= 7 * SECONDS_PER_DAY THEN 6
    ELSE IF age_seconds <= 14 * SECONDS_PER_DAY THEN 3
    ELSE IF age_seconds <= 30 * SECONDS_PER_DAY THEN 1
    ELSE 0

\* _recency_weight(ts_str) read at clock value t (a run is taken to be short:
\* every call of one run reads the same clock value; microseconds are not
\* modelled).  `now - ts` is outside the try block: with a naive ts it raises
\* TypeError out of the function.
_recency_weight(ts_str, t) ==
    IF ts_str.form \in { "null", "empty", "missing" } THEN Returned(0)
    ELSE LET ts == fromisoformat(replace_Z(ts_str))
         IN  IF ~ts.ok THEN Returned(0)
             ELSE IF ~ts.aware THEN Raised
             ELSE Returned(age_weight(Max(0, t - ts.instant)))

(***************************************************************************)
(* Impact weight.                                                          *)
(***************************************************************************)
Score(p, n) == [ positive |-> p, negative |-> n, neutral |-> Max(0, 100 - p - n) ]

\* base ** gamma with gamma = 1.5, base in thousandths, result in 1e-5
pow_gamma(base) == (base * Isqrt(1000 * base)) \div 10

has_keyword_CaseSensitive(text) ==
    \E k \in 1..Len(HIGH_IMPACT_KEYWORDS) : Contains(text, HIGH_IMPACT_KEYWORDS[k])

\* any(k in txt for k in HIGH_IMPACT_KEYWORDS), txt = text.lower()
has_keyword(text) ==
    \E k \in 1..Len(HIGH_IMPACT_KEYWORDS) : Contains(lower(text), HIGH_IMPACT_KEYWORDS[k])

_impact_weight(score, text) ==
    LET margin == Abs(score.positive - score.negative)
        base == Max(10 * margin, 1)
        impact_boost == IF has_keyword(text) THEN 3 ELSE 1
    IN  pow_gamma(base) * impact_boost

(***************************************************************************)
(* Records of news.json.  title, description and content are texts; << >>  *)
(* stands for an absent, null or empty part (`article.get(k) or ""`).      *)
(***************************************************************************)
Article(url, ts, title, description, content) ==
    [ url |-> url, timestamp |-> ts, title |-> title,
      description |-> description, content |-> content ]

\* " \n".join(parts)
RECURSIVE join(_)
join(parts) ==
    IF parts = << >> THEN << >>
    ELSE IF Len(parts) = 1 THEN Head(parts)
    ELSE Head(parts) \o << " ", "\n" >> \o join(Tail(parts))

_extract_news_text(article) ==
    LET parts == << article.title, article.description, article.content >>
    IN  join(SelectSeq(parts, LAMBDA p : p # << >>))

(***************************************************************************)
(* processing/index_calc.py is not among the sources: compute_index and    *)
(* its classification are taken from sections 4.4 and 4.5 of the           *)
(* specification.                                                          *)
(***************************************************************************)
classify(nw_norm) ==
    IF nw_norm < 25000 THEN "Extremely Bearish"
    ELSE IF nw_norm < 45000 THEN "Bearish"
    ELSE IF nw_norm < 55000 THEN "Neutral"
    ELSE IF nw_norm < 75000 THEN "Bullish"
    ELSE "Extremely Bullish"

IndexComponents(nw, nw_norm) ==
    [ nw |-> nw, nw_norm |-> nw_norm, gsi |-> nw_norm, classification |-> classify(nw_norm) ]

\* floor(500 * num / den) for den > 0, without leaving 32 bits
Scale500(num, den) ==
    LET q  == num \div den
        r  == num % den
        q2 == (100 * r) \div den
        r2 == (100 * r) % den
    IN  500 * q + 5 * q2 + (5 * r2) \div den

compute_index(scores, news_weights) ==
    LET n     == Min(Len(scores), Len(news_weights))
        total == SumSeq([ i \in 1..n |-> news_weights[i] ])
        nw    == SumSeq([ i \in 1..n |->
                     news_weights[i] * (scores[i].positive - scores[i].negative) ])
    IN  IF n = 0 \/ total <= 0 THEN IndexComponents(0, 50000)
        ELSE IndexComponents(nw, Max(0, Min(100000, 50000 + Scale500(nw, total))))

(***************************************************************************)
(* models/finbert_gold.py is not among the sources either.  analyze_batch  *)
(* is the external classifier of section 6: it raises, or returns a list   *)
(* of scores.  Its contract is one score per text; a list that is too      *)
(* short is the failure section 5 asks the caller to reject.  A list that  *)
(* is too long is left out: what compute_index does with more scores than  *)
(* weights is not stated anywhere.                                         *)
(***************************************************************************)
ScoreSet == { Score(90, 5), Score(10, 80), Score(50, 50), Score(100, 0), Score(0, 100) }

SeqsOfLen(S, n) == [ 1..n -> S ]

analyze_batch_results(batch) == SeqsOfLen(ScoreSet, Len(batch))

analyze_batch_short_results(batch) ==
    UNION { SeqsOfLen(ScoreSet, k) : k \in 0..(Len(batch) - 1) }

(***************************************************************************)
(* The input snapshots.                                                    *)
(***************************************************************************)
TextFedCuts  == << "F","e","d"," ","c","u","t","s" >>
TextGoldUp   == << "g","o","l","d"," ","u","p" >>
TextMining   == << "m","i","n","i","n","g" >>
TextBlank    == << " " >>

Clock == (MaxAgeDays + 10) * SECONDS_PER_DAY

TsAged(age_seconds, tz, off) == Ts("iso", (Clock - age_seconds) + off, tz, off)

Articles ==
    { Article("u1", TsAged(0, "Z", 0), TextFedCuts, << >>, << >>),
      Article("u2", TsAged(10 * SECONDS_PER_DAY, "offset", 7200), TextGoldUp, TextMining, << >>),
      Article("u3", TsAged(40 * SECONDS_PER_DAY, "Z", 0), TextGoldUp, << >>, << >>),
      Article("u4", TsMissing, TextFedCuts, << >>, << >>),
      Article("u5", TsAged(3600, "Z", 0), TextBlank, << >>, << >>),
      Article("u6", TsAged(3600, "none", 0), TextGoldUp, << >>, << >>),
      Article("u7", TsText, << >>, << >>, TextMining) }

Snapshots == UNION { SeqsOfLen(Articles, k) : k \in 0..MaxDocs }

NoResult == [ timestamp |-> -1, news |-> [ count |-> 0, documents |-> << >>, nw |-> 0, nw_norm |-> 0 ],
              gsi |-> -1, classification |-> "" ]

File(exists, data) == [ exists |-> exists, data |-> data ]

\* what an earlier run left in the two snapshot files
PreviousResult ==
    [ timestamp |-> Clock - SECONDS_PER_DAY,
      news |-> [ count |-> 0, documents |-> << >>, nw |-> 0, nw_norm |-> 50000 ],
      gsi |-> 50000, classification |-> "Neutral" ]

gsi_payload_WritesNw(r) ==
    [ timestamp |-> r.timestamp, gsi |-> r.gsi,
      classification |-> r.classification, nw_norm |-> r.news.nw ]

\* save_results: the lightweight record
gsi_payload(r) ==
    [ timestamp |-> r.timestamp, gsi |-> r.gsi,
      classification |-> r.classification, nw_norm |-> r.news.nw_norm ]

IdleProbe == [ fn |-> "", arg |-> << >>, status |-> "idle", out |-> 0 ]

IdlePage ==
    /\ dashboard_html = File(FALSE, << >>)
    /\ gauge = [ loaded |-> FALSE, needle |-> -1, bands |-> << >>, value |-> -1,
                 label |-> "Loading", updated |-> "Fetching latest data" ]

IdlePipeline ==
    /\ now = Clock
    /\ news_json = File(FALSE, << >>)
    /\ pc = "idle"
    /\ news_raw = << >>
    /\ cursor = 0
    /\ news_items = << >>
    /\ recency_weights = << >>
    /\ texts = << >>
    /\ batch_calls = << >>
    /\ batch_outcome = "none"
    /\ news_scores = << >>
    /\ effective_weights = << >>
    /\ index_scores = << >>
    /\ news_docs = << >>
    /\ result = NoResult
    /\ sentiment_results_json = File(TRUE, PreviousResult)
    /\ gsi_value_json = File(TRUE, gsi_payload(PreviousResult))

Init ==
    /\ now = Clock
    /\ news_json \in { File(FALSE, << >>) } \cup { File(TRUE, s) : s \in Snapshots }
    /\ pc = "start"
    /\ news_raw = << >>
    /\ cursor = 0
    /\ news_items = << >>
    /\ recency_weights = << >>
    /\ texts = << >>
    /\ batch_calls = << >>
    /\ batch_outcome = "none"
    /\ news_scores = << >>
    /\ effective_weights = << >>
    /\ index_scores = << >>
    /\ news_docs = << >>
    /\ result = NoResult
    /\ sentiment_results_json = File(TRUE, PreviousResult)
    /\ gsi_value_json = File(TRUE, gsi_payload(PreviousResult))
    /\ IdlePage
    /\ probe = IdleProbe

(***************************************************************************)
(* run_analysis_only: analyze_documents, then save_results.                *)
(***************************************************************************)
\* _load_news: _load_json gives [] for a missing file
_load_news == IF news_json.exists THEN news_json.data ELSE << >>

LoadNews ==
    /\ pc = "start"
    /\ news_raw' = _load_news
    /\ pc' = "filter"
    /\ UNCHANGED << now, news_json, cursor, news_items, recency_weights, texts,
                    batch_calls, batch_outcome, news_scores, effective_weights,
                    index_scores, news_docs, result, sentiment_results_json,
                    gsi_value_json, dashboard_html, gauge, probe >>

\* one iteration of `for n in news_raw`
FilterStep ==
    /\ pc = "filter"
    /\ cursor < Len(news_raw)
    /\ LET n    == news_raw[cursor + 1]
           w    == _recency_weight(get_timestamp(n.timestamp), now)
           text == _extract_news_text(n)
       IN  IF w.raised
           THEN /\ pc' = "failed"
                /\ UNCHANGED << cursor, news_items, recency_weights, texts >>
           ELSE /\ pc' = pc
                /\ cursor' = cursor + 1
                /\ IF w.value <= 0 \/ ~strip_nonempty(text)
                   THEN UNCHANGED << news_items, recency_weights, texts >>
                   ELSE /\ news_items' = Append(news_items, n)
                        /\ recency_weights' = Append(recency_weights, w.value)
                        /\ texts' = Append(texts, text)
    /\ UNCHANGED << now, news_json, news_raw, batch_calls, batch_outcome, news_scores,
                    effective_weights, index_scores, news_docs, result,
                    sentiment_results_json, gsi_value_json, dashboard_html, gauge,
                    probe >>

FilterDone == pc = "filter" /\ cursor = Len(news_raw)

SkipAnalyzeBatch_CallsAnyway ==
    /\ FilterDone
    /\ texts = << >>
    /\ batch_calls' = Append(batch_calls, texts)
    /\ news_scores' = << >>
    /\ batch_outcome' = "returned"
    /\ pc' = "combine"
    /\ UNCHANGED << now, news_json, news_raw, cursor, news_items, recency_weights,
                    texts, effective_weights, index_scores, news_docs,
                    result, sentiment_results_json, gsi_value_json, dashboard_html,
                    gauge, probe >>

\* `analyze_batch(texts) if texts else []` with no text left
SkipAnalyzeBatch ==
    /\ FilterDone
    /\ texts = << >>
    /\ news_scores' = << >>
    /\ batch_outcome' = "skipped"
    /\ pc' = "combine"
    /\ UNCHANGED << now, news_json, news_raw, cursor, news_items, recency_weights,
                    texts, batch_calls, effective_weights, index_scores, news_docs,
                    result, sentiment_results_json, gsi_value_json, dashboard_html,
                    gauge, probe >>

AnalyzeBatchReturns ==
    /\ FilterDone
    /\ texts # << >>
    /\ batch_calls' = Append(batch_calls, texts)
    /\ \E scores \in analyze_batch_results(texts) : news_scores' = scores
    /\ batch_outcome' = "returned"
    /\ pc' = "combine"
    /\ UNCHANGED << now, news_json, news_raw, cursor, news_items, recency_weights,
                    texts, effective_weights, index_scores, news_docs, result,
                    sentiment_results_json, gsi_value_json, dashboard_html, gauge,
                    probe >>

AnalyzeBatchReturnsShort ==
    /\ FilterDone
    /\ texts # << >>
    /\ batch_calls' = Append(batch_calls, texts)
    /\ \E scores \in analyze_batch_short_results(texts) : news_scores' = scores
    /\ batch_outcome' = "short"
    /\ pc' = "combine"
    /\ UNCHANGED << now, news_json, news_raw, cursor, news_items, recency_weights,
                    texts, effective_weights, index_scores, news_docs, result,
                    sentiment_results_json, gsi_value_json, dashboard_html, gauge,
                    probe >>

AnalyzeBatchRaises ==
    /\ FilterDone
    /\ texts # << >>
    /\ batch_calls' = Append(batch_calls, texts)
    /\ batch_outcome' = "raised"
    /\ pc' = "failed"
    /\ UNCHANGED << now, news_json, news_raw, cursor, news_items, recency_weights,
                    texts, news_scores, effective_weights, index_scores, news_docs,
                    result, sentiment_results_json, gsi_value_json, dashboard_html,
                    gauge, probe >>

\* zip(a, b, ...) stops at the shortest argument
zip_len2(a, b) == Min(Len(a), Len(b))

zip_len3(a, b, c) == Min(Len(a), Min(Len(b), Len(c)))

\* for s, w, text in zip(news_scores, recency_weights, texts)
combine_weights(scores, weights, txts) ==
    [ i \in 1..zip_len3(scores, weights, txts) |->
        weights[i] * _impact_weight(scores[i], txts[i]) ]

\* DocumentSentiment(...).to_dict() for raw, s in zip(news_items, news_scores)
build_docs(items, scores) ==
    [ i \in 1..zip_len2(items, scores) |->
        [ source |-> "news", id |-> items[i].url, timestamp |-> items[i].timestamp,
          text |-> _extract_news_text(items[i]),
          positive |-> scores[i].positive, negative |-> scores[i].negative,
          neutral |-> scores[i].neutral ] ]

make_result(docs, components, t) ==
    [ timestamp |-> t,
      news |-> [ count |-> Len(docs), documents |-> docs,
                 nw |-> components.nw, nw_norm |-> components.nw_norm ],
      gsi |-> components.gsi,
      classification |-> components.classification ]

\* lines 171-209: weights, documents, compute_index, the result dict
Aggregate ==
    /\ pc = "combine"
    /\ effective_weights' = combine_weights(news_scores, recency_weights, texts)
    /\ index_scores' = news_scores
    /\ news_docs' = build_docs(news_items, news_scores)
    /\ result' = make_result(news_docs', compute_index(index_scores', effective_weights'), now)
    /\ pc' = "save_results"
    /\ UNCHANGED << now, news_json, news_raw, cursor, news_items, recency_weights,
                    texts, batch_calls, batch_outcome, news_scores,
                    sentiment_results_json, gsi_value_json, dashboard_html, gauge,
                    probe >>

\* save_results, first write
SaveSentimentResults ==
    /\ pc = "save_results"
    /\ sentiment_results_json' = File(TRUE, result)
    /\ pc' = "save_gsi"
    /\ UNCHANGED << now, news_json, news_raw, cursor, news_items, recency_weights,
                    texts, batch_calls, batch_outcome, news_scores, effective_weights,
                    index_scores, news_docs, result, gsi_value_json, dashboard_html,
                    gauge, probe >>

\* save_results, second write
SaveGsiValue ==
    /\ pc = "save_gsi"
    /\ gsi_value_json' = File(TRUE, gsi_payload(result))
    /\ pc' = "done"
    /\ UNCHANGED << now, news_json, news_raw, cursor, news_items, recency_weights,
                    texts, batch_calls, batch_outcome, news_scores, effective_weights,
                    index_scores, news_docs, result, sentiment_results_json,
                    dashboard_html, gauge, probe >>

Next ==
    \/ LoadNews
    \/ FilterStep
    \/ SkipAnalyzeBatch
    \/ AnalyzeBatchReturns
    \/ AnalyzeBatchReturnsShort
    \/ AnalyzeBatchRaises
    \/ Aggregate
    \/ SaveSentimentResults
    \/ SaveGsiValue

Spec == Init /\ [][Next]_vars

(***************************************************************************)
(* processing/dashboard.py: the page generate_dashboard writes and the     *)
(* script in it.                                                           *)
(***************************************************************************)
\* <div class="bands">: label and range of each legend entry
HtmlLegend ==
    << [ label |-> "Extreme Bearish", lo |-> 0,  hi |-> 25 ],
       [ label |-> "Bearish",         lo |-> 25, hi |-> 45 ],
       [ label |-> "Neutral",         lo |-> 45, hi |-> 55 ],
       [ label |-> "Bullish",         lo |-> 55, hi |-> 75 ],
       [ label |-> "Extreme Bullish", lo |-> 75, hi |-> 100 ] >>

\* drawGauge: the drawBand calls
DrawnBands ==
    << [ lo |-> 0,  hi |-> 25,  color |-> "#ff0000" ],
       [ lo |-> 25, hi |-> 45,  color |-> "#fee2e2" ],
       [ lo |-> 45, hi |-> 55,  color |-> "#e5e7eb" ],
       [ lo |-> 55, hi |-> 75,  color |-> "#bbf7d0" ],
       [ lo |-> 75, hi |-> 100, color |-> "#22c55e" ] >>

classifyGsi_InclusiveUpper(gsi) ==
    IF gsi <= 25000 THEN "Extremely Bearish"
    ELSE IF gsi <= 45000 THEN "Bearish"
    ELSE IF gsi <= 55000 THEN "Neutral"
    ELSE IF gsi <= 75000 THEN "Bullish"
    ELSE "Extremely Bullish"

classifyGsi(gsi) ==
    IF gsi < 25000 THEN "Extremely Bearish"
    ELSE IF gsi < 45000 THEN "Bearish"
    ELSE IF gsi < 55000 THEN "Neutral"
    ELSE IF gsi < 75000 THEN "Bullish"
    ELSE "Extremely Bullish"

\* gsi.toFixed(0): the nearest whole index point
toFixed0(gsi) == (gsi + 500) \div 1000

\* applyPayload(payload) for the payload of gsi_value.json
applyPayload(payload) ==
    LET gsi == payload.gsi
        classification == IF payload.classification # ""
                          THEN payload.classification ELSE classifyGsi(gsi)
    IN  [ loaded |-> TRUE, needle |-> gsi, bands |-> DrawnBands,
          value |-> toFixed0(gsi), label |-> classification,
          updated |-> "Last updated" ]

BlankGauge ==
    [ loaded |-> FALSE, needle |-> -1, bands |-> << >>, value |-> -1,
      label |-> "Loading", updated |-> "Fetching latest data" ]

GenerateDashboard ==
    /\ ~dashboard_html.exists
    /\ dashboard_html' = File(TRUE, [ legend |-> HtmlLegend, script |-> "gauge" ])
    /\ UNCHANGED << gauge, probe >>
    /\ UNCHANGED pipeline_vars

\* fetchAndUpdate with resp.ok
FetchAndUpdate ==
    /\ dashboard_html.exists
    /\ gsi_value_json.exists
    /\ gauge' = applyPayload(gsi_value_json.data)
    /\ UNCHANGED << dashboard_html, probe >>
    /\ UNCHANGED pipeline_vars

\* fetchAndUpdate with no gsi_value.json to fetch: the catch branch
FetchFails ==
    /\ dashboard_html.exists
    /\ ~gsi_value_json.exists
    /\ gauge' = [ gauge EXCEPT !.updated = "Failed to load latest data" ]
    /\ UNCHANGED << dashboard_html, probe >>
    /\ UNCHANGED pipeline_vars

(***************************************************************************)
(* Single calls of the pure functions, on inputs drawn in the initial      *)
(* state.                                                                  *)
(***************************************************************************)
Probe(fn, arg) == [ fn |-> fn, arg |-> arg, status |-> "ready", out |-> 0 ]

ProbeAges ==
    { d * SECONDS_PER_DAY + e : d \in 0..MaxAgeDays, e \in { -1, 0, 1 } }
        \cup { -2 * SECONDS_PER_DAY }

ProbeOffsets == { 7200, -18000 }

ProbeTimestamps ==
    { TsMissing, TsNull, TsEmpty, TsText }
        \cup { TsAged(a, "Z", 0) : a \in ProbeAges }
        \cup { TsAged(a, "offset", o) : a \in ProbeAges, o \in ProbeOffsets }
        \cup { TsAged(a, "none", 0) : a \in { 0, 2 * SECONDS_PER_DAY, 40 * SECONDS_PER_DAY } }

InitRecency ==
    /\ IdlePipeline
    /\ IdlePage
    /\ probe \in { Probe("_recency_weight", ts) : ts \in ProbeTimestamps }

Probe_recency_weight ==
    /\ probe.fn = "_recency_weight"
    /\ probe.status = "ready"
    /\ LET w == _recency_weight(get_timestamp(probe.arg), now)
       IN  probe' = [ probe EXCEPT !.status = IF w.raised THEN "raised" ELSE "returned",
                                   !.out = w.value ]
    /\ UNCHANGED page_vars
    /\ UNCHANGED pipeline_vars

NextRecency == Probe_recency_weight

SpecRecency == InitRecency /\ [][NextRecency]_vars

ProbeAlphabet == { "f", "e", "d", "F", "E", "q" }

ProbeTexts ==
    UNION { SeqsOfLen(ProbeAlphabet, k) : k \in 0..MaxTextLen }
        \cup { TextFedCuts, TextGoldUp, TextMining,
               << "C","o","n","f","e","d","e","r","a","t","e" >>,
               << "T","a","p","e","r","i","n","g" >>,
               << "B","R","I","C","S" >>,
               << "R","a","t","e"," ","C","u","t" >>,
               << "r","a","t","e","c","u","t" >> }

ProbeScores == { Score(p, n) : p \in { 0, 50, 100 }, n \in { 0, 50, 100 } }
                   \cup { Score(90, 5), Score(33, 33) }

InitImpact ==
    /\ IdlePipeline
    /\ IdlePage
    /\ probe \in { Probe("_impact_weight", [ score |-> s, text |-> t ]) :
                       s \in ProbeScores, t \in ProbeTexts }

Probe_impact_weight ==
    /\ probe.fn = "_impact_weight"
    /\ probe.status = "ready"
    /\ probe' = [ probe EXCEPT !.status = "returned",
                               !.out = _impact_weight(probe.arg.score, probe.arg.text) ]
    /\ UNCHANGED page_vars
    /\ UNCHANGED pipeline_vars

NextImpact == Probe_impact_weight

SpecImpact == InitImpact /\ [][NextImpact]_vars

BandEdges == { 25000, 45000, 55000, 75000 }

ProbeGsi ==
    { (k * 100000) \div MaxGsiStep : k \in 0..MaxGsiStep }
        \cup { b + e : b \in BandEdges, e \in { -1, 0, 1 } }

\* gsi_value.json as an earlier run of save_results left it
WrittenPayload(g) ==
    [ timestamp |-> Clock - SECONDS_PER_DAY, gsi |-> g,
      classification |-> classify(g), nw_norm |-> g ]

NoPayload == [ timestamp |-> -1, gsi |-> -1, classification |-> "", nw_norm |-> -1 ]

PublishedGsi == BandEdges \cup { 0, 24999, 100000 }

InitGauge ==
    /\ now = Clock
    /\ news_json = File(FALSE, << >>)
    /\ pc = "idle"
    /\ news_raw = << >>
    /\ cursor = 0
    /\ news_items = << >>
    /\ recency_weights = << >>
    /\ texts = << >>
    /\ batch_calls = << >>
    /\ batch_outcome = "none"
    /\ news_scores = << >>
    /\ effective_weights = << >>
    /\ index_scores = << >>
    /\ news_docs = << >>
    /\ result = NoResult
    /\ sentiment_results_json = File(TRUE, PreviousResult)
    /\ gsi_value_json \in { File(FALSE, NoPayload) }
                              \cup { File(TRUE, WrittenPayload(g)) : g \in PublishedGsi }
    /\ IdlePage
    /\ probe \in { Probe("classifyGsi", g) : g \in ProbeGsi }

Probe_classifyGsi ==
    /\ probe.fn = "classifyGsi"
    /\ probe.status = "ready"
    /\ probe' = [ probe EXCEPT !.status = "returned", !.out = classifyGsi(probe.arg) ]
    /\ UNCHANGED page_vars
    /\ UNCHANGED pipeline_vars

NextGauge ==
    \/ Probe_classifyGsi
    \/ GenerateDashboard
    \/ FetchAndUpdate
    \/ FetchFails

SpecGauge == InitGauge /\ [][NextGauge]_vars

(***************************************************************************)
(* Properties.                                                             *)
(***************************************************************************)
Days(d) == d * SECONDS_PER_DAY

\* the age table of section 4.1, weight in tenths
TableWeight(age) ==
    CASE age <= Days(1)                      -> 10
      [] age > Days(1)  /\ age <= Days(3)    -> 8
      [] age > Days(3)  /\ age <= Days(7)    -> 6
      [] age > Days(7)  /\ age <= Days(14)   -> 3
      [] age > Days(14) /\ age <= Days(30)   -> 1
      [] age > Days(30)                      -> 0

HasInstant(ts) == ts.form = "iso" /\ ts.tz \in { "Z", "offset" }

InstantOf(ts) == ts.local - ts.off

AgeOf(ts) == Max(0, now - InstantOf(ts))

C2_RecencyNeverRaises ==
    (probe.fn = "_recency_weight" /\ probe.status # "ready") =>
        /\ probe.status = "returned"
        /\ probe.out \in 0..10
        /\ (probe.arg.form # "iso" => probe.out = 0)

\* the documents the filter keeps: recency weight > 0, text not blank
KeptByFilter(n) ==
    LET w == _recency_weight(get_timestamp(n.timestamp), now)
    IN  /\ ~w.raised
        /\ w.value > 0
        /\ \E i \in 1..Len(_extract_news_text(n)) :
               _extract_news_text(n)[i] \notin { " ", "\n", "\t", "\r" }

KeptTexts ==
    LET kept == SelectSeq(news_raw, KeptByFilter)
    IN  [ i \in 1..Len(kept) |-> _extract_news_text(kept[i]) ]

\* C3: analyze_batch is called at most once in a run, not at all when no
\* document survives the filter, and what it is given is, in snapshot order,
\* the texts of the documents with recency weight > 0 and non-empty text.
C3_ClassifierCalledOnceOnSurvivors ==
    /\ Len(batch_calls) <= 1
    /\ (pc \notin { "start", "filter" } /\ KeptTexts = << >>) => batch_calls = << >>
    /\ \A c \in 1..Len(batch_calls) :
           /\ batch_calls[c] = KeptTexts
           /\ batch_calls[c] = texts
           /\ Len(news_items) = Len(texts)
           /\ \A i \in 1..Len(texts) :
                  /\ texts[i] # << >>
                  /\ texts[i] = _extract_news_text(news_items[i])
                  /\ recency_weights[i] > 0
                  /\ recency_weights[i] =
                         _recency_weight(get_timestamp(news_items[i].timestamp), now).value

C3_Witness ==
    /\ Len(batch_calls) = 1
    /\ Len(batch_calls[1]) = 1
    /\ Len(news_raw) = 2
    /\ news_raw[1].url = "u3"
    /\ news_raw[2].url = "u2"

FilesUntouched ==
    /\ sentiment_results_json = File(TRUE, PreviousResult)
    /\ gsi_value_json = File(TRUE, gsi_payload(PreviousResult))

\* C4: if analyze_batch raises, or returns other than one score per text,
\* the run fails without a result: no index is computed or saved and both
\* snapshot files keep their previous contents.
C4_ClassifierAllOrNothing ==
    batch_outcome \in { "raised", "short" } =>
        /\ result = NoResult
        /\ pc \notin { "save_results", "save_gsi", "done" }
        /\ FilesUntouched

\* C5: with news.json missing or empty, or every document dropped for
\* recency weight 0 or empty text, the run does not fail and its result is
\* the neutral one: count 0, nw 0, nw_norm 50, gsi 50, "Neutral".
DroppedByFilter(n) ==
    LET w == _recency_weight(get_timestamp(n.timestamp), now)
    IN  /\ ~w.raised
        /\ \/ w.value = 0
           \/ \A i \in 1..Len(_extract_news_text(n)) :
                  _extract_news_text(n)[i] \in { " ", "\n", "\t", "\r" }

EmptyCorpus ==
    \/ ~news_json.exists
    \/ \A i \in 1..Len(news_json.data) : DroppedByFilter(news_json.data[i])

C5_EmptyCorpusIsNeutral ==
    (pc # "idle" /\ EmptyCorpus) =>
        /\ pc # "failed"
        /\ batch_calls = << >>
        /\ pc \in { "save_results", "save_gsi", "done" } =>
               /\ result.news.count = 0
               /\ result.news.documents = << >>
               /\ result.news.nw = 0
               /\ result.news.nw_norm = 50000
               /\ result.gsi = 50000
               /\ result.classification = "Neutral"

C5_Witness ==
    /\ pc = "done"
    /\ Len(news_raw) = 2
    /\ news_raw[1].url = "u5"
    /\ news_raw[2].url = "u3"
    /\ result.gsi = 50000
    /\ sentiment_results_json.data.news.count = 0

\* the bands of section 4.5, in thousandths of a point; the last is closed
ClaimBands ==
    << [ lo |-> 0,     hi |-> 25000,  closed |-> FALSE, label |-> "Extremely Bearish" ],
       [ lo |-> 25000, hi |-> 45000,  closed |-> FALSE, label |-> "Bearish" ],
       [ lo |-> 45000, hi |-> 55000,  closed |-> FALSE, label |-> "Neutral" ],
       [ lo |-> 55000, hi |-> 75000,  closed |-> FALSE, label |-> "Bullish" ],
       [ lo |-> 75000, hi |-> 100000, closed |-> TRUE,  label |-> "Extremely Bullish" ] >>

InBand(g, b) == b.lo <= g /\ (g < b.hi \/ (b.closed /\ g = b.hi))

BandsOf(g) == { i \in 1..Len(ClaimBands) : InBand(g, ClaimBands[i]) }

IndexWellFormed(gsi, nw_norm, classification) ==
    /\ gsi = nw_norm
    /\ nw_norm >= 0
    /\ nw_norm <= 100000
    /\ Cardinality(BandsOf(nw_norm)) = 1
    /\ \A i \in BandsOf(nw_norm) : classification = ClaimBands[i].label

\* C6: in every result analyze_documents returns and every lightweight
\* record save_results writes, gsi equals nw_norm, both lie in [0,100] and
\* classification is the label of the band holding nw_norm.
C6_GsiEqualsNwNormInRange ==
    /\ pc \in { "save_results", "save_gsi", "done" } =>
           IndexWellFormed(result.gsi, result.news.nw_norm, result.classification)
    /\ pc \in { "save_gsi", "done" } => sentiment_results_json.data = result
    /\ pc = "done" =>
           /\ gsi_value_json.exists
           /\ IndexWellFormed(gsi_value_json.data.gsi, gsi_value_json.data.nw_norm,
                              gsi_value_json.data.classification)
           /\ gsi_value_json.data.gsi = result.gsi
           /\ gsi_value_json.data.nw_norm = result.news.nw_norm
           /\ gsi_value_json.data.classification = result.classification
           /\ gsi_value_json.data.timestamp = result.timestamp

C6_Witness ==
    /\ pc = "done"
    /\ batch_outcome = "returned"
    /\ Len(index_scores) = 2
    /\ \A i \in 1..2 : index_scores[i] = Score(0, 100)
    /\ gsi_value_json.data.gsi = 0
    /\ gsi_value_json.data.classification = "Extremely Bearish"

\* C7: the index-to-label function is total over [0,100] and its bands
\* partition the range: [0,25) Extremely Bearish, [25,45) Bearish, [45,55)
\* Neutral, [55,75) Bullish, [75,100] Extremely Bullish; classifyGsi of the
\* gauge and the classifier of the index give that label for every value.
C7_BandsPartitionAndAgree ==
    (probe.fn = "classifyGsi" /\ probe.status = "returned") =>
        /\ Cardinality(BandsOf(probe.arg)) = 1
        /\ \A i \in BandsOf(probe.arg) :
               /\ probe.out = ClaimBands[i].label
               /\ classify(probe.arg) = ClaimBands[i].label

C7_Witness ==
    /\ probe.fn = "classifyGsi"
    /\ probe.status = "returned"
    /\ probe.arg = 25000
    /\ probe.out = "Bearish"

\* C8: the gauge page uses exactly the five bands and the five labels of
\* the classifier: the ranges it draws, and the legend and the displayed
\* classification, are 0-25, 25-45, 45-55, 55-75, 75-100 with the labels
\* Extremely Bearish, Bearish, Neutral, Bullish, Extremely Bullish.
C8_GaugeUsesClassifierBands ==
    /\ dashboard_html.exists =>
           /\ Len(dashboard_html.data.legend) = Len(ClaimBands)
           /\ \A i \in 1..Len(ClaimBands) :
                  /\ dashboard_html.data.legend[i].label = ClaimBands[i].label
                  /\ dashboard_html.data.legend[i].lo * 1000 = ClaimBands[i].lo
                  /\ dashboard_html.data.legend[i].hi * 1000 = ClaimBands[i].hi
    /\ gauge.loaded =>
           /\ Len(gauge.bands) = Len(ClaimBands)
           /\ \A i \in 1..Len(ClaimBands) :
                  /\ gauge.bands[i].lo * 1000 = ClaimBands[i].lo
                  /\ gauge.bands[i].hi * 1000 = ClaimBands[i].hi
           /\ \E i \in 1..Len(ClaimBands) : gauge.label = ClaimBands[i].label

\* the keyword test of section 4.2, on the lower-cased text
KeywordAt(txt, i, k) ==
    /\ i + Len(k) - 1 <= Len(txt)
    /\ SubSeq(txt, i, i + Len(k) - 1) = k

MentionsKeyword(text) ==
    \E n \in 1..Len(HIGH_IMPACT_KEYWORDS) :
        \E i \in 1..Len(text) : KeywordAt(lower(text), i, HIGH_IMPACT_KEYWORDS[n])

\* C9: _impact_weight boosts by exactly 3 iff the lower-cased text holds a
\* keyword of HIGH_IMPACT_KEYWORDS, and by 1 otherwise: for a fixed score
\* the weight with a keyword is 3 times the weight without one, whatever
\* the margin, the floored margin 0 included.
C9_KeywordBoostIsThree ==
    (probe.fn = "_impact_weight" /\ probe.status = "returned") =>
        LET plain == _impact_weight(probe.arg.score, << >>)
        IN  /\ plain > 0
            /\ (probe.arg.score.positive = probe.arg.score.negative) => plain = pow_gamma(1)
            /\ probe.out = IF MentionsKeyword(probe.arg.text) THEN 3 * plain ELSE plain

C9_Witness ==
    /\ probe.fn = "_impact_weight"
    /\ probe.status = "returned"
    /\ probe.arg.text = << "F", "E", "d" >>
    /\ probe.arg.score = Score(50, 50)
    /\ probe.out = 3 * pow_gamma(1)

\* C10: every weight given to compute_index is > 0 and is the recency
\* weight of one surviving document times the impact weight of that
\* document's own score and text; the i-th weight, score and output document
\* belong to the i-th surviving record, every surviving record gives one
\* (score, weight) pair, and scores and weights have the same length.
C10_OnePairPerSurvivor ==
    pc \in { "save_results", "save_gsi", "done" } =>
        /\ Len(effective_weights) = Len(news_items)
        /\ Len(index_scores) = Len(effective_weights)
        /\ Len(news_docs) = Len(news_items)
        /\ \A i \in 1..Len(effective_weights) :
               /\ effective_weights[i] > 0
               /\ effective_weights[i] =
                      _recency_weight(get_timestamp(news_items[i].timestamp), now).value
                          * _impact_weight(index_scores[i], _extract_news_text(news_items[i]))
        /\ \A i \in 1..Len(news_docs) :
               /\ news_docs[i].id = news_items[i].url
               /\ news_docs[i].positive = index_scores[i].positive
               /\ news_docs[i].negative = index_scores[i].negative

====
